---- MODULE Spec2Model ----
(***************************************************************************)
(* The translation pipeline of cdk_app/step_function_stack.py: the         *)
(* EventBridge rule that starts an execution for an uploaded object, and    *)
(* the Step Functions state machine (Task, Wait, Choice and Pass states)    *)
(* that the stack declares, executed one state at a time over the           *)
(* execution's JSON payload.                                                *)
(*                                                                          *)
(* Text that the code takes apart (object keys matched by suffix, language  *)
(* codes matched by wildcard, URIs split at '/') is a sequence of one-      *)
(* character or one-token strings; text that is only compared for equality  *)
(* is a TLA+ string.                                                        *)
(***************************************************************************)
EXTENDS Naturals, Sequences, FiniteSets, TLC

VARIABLES
    event,        \* the upload event put on the bus, or NoEvent
    runsStarted,  \* number of executions the rule has started
    executionId,  \* $$.Execution.Name of the run
    currentState, \* name of the state the run is at
    outcome,      \* "NOT_STARTED", "RUNNING", "SUCCEEDED" or "FAILED"
    error,        \* [kind, state] of the failure, or NoError
    payload,      \* the JSON payload: top-level key -> value
    prev,         \* name of the state executed last ("" before the first)
    count,        \* state name -> number of times executed (saturating)
    lastCall,     \* Task state name -> Parameters of its last call, or NoCall
    lastResult,   \* Task state name -> the result it wrote last, or NoCall
    attempts,     \* calls made by the Task state executed last
    callStatus,   \* how the last call ended: "none", "ok" or the error kind
    statusHist,   \* job statuses written to the payload, in order
    subs,         \* job submissions evaluated under NamingSpec
    evals,        \* Choice evaluations made under ChoiceSpec
    runs,         \* under PairSpec: run -> [executionId, currentState, outcome, error, payload]
    jobs          \* under PairSpec: the transcription service's jobs, by job name

vars == <<event, runsStarted, executionId, currentState, outcome, error,
          payload, prev, count, lastCall, lastResult, attempts, callStatus,
          statusHist, subs, evals, runs, jobs>>

\* What the steps of the run leave alone.
auxVars == <<subs, evals, runs, jobs>>

runVars == <<event, runsStarted, executionId, currentState, outcome, error,
             payload, prev, count, lastCall, lastResult, attempts, callStatus,
             statusHist>>

----------------------------------------------------------------------------
(* Bounds *)

\* Polls counted exactly; beyond it the counters and the history saturate.
MaxPolls == 4

\* Submissions evaluated under NamingSpec.
MaxSubs == 3

\* Choice evaluations made under ChoiceSpec.
MaxEvals == 2

----------------------------------------------------------------------------
(* Text *)

dot_mp4 == <<".", "m", "p", "4">>

clip_mp4 == <<"c", "l", "i", "p", ".", "m", "p", "4">>

talk_mp4 == <<"t", "a", "l", "k", ".", "m", "p", "4">>

song_mp3 == <<"s", "o", "n", "g", ".", "m", "p", "3">>

document_pdf == <<"d", "o", "c", ".", "p", "d", "f">>

en == <<"e", "n">>

en_US == <<"e", "n", "-", "U", "S">>

es == <<"e", "s">>

\* A key matches {"suffix": suf} when it ends with suf.
HasSuffix(s, suf) ==
    /\ Len(s) >= Len(suf)
    /\ SubSeq(s, Len(s) - Len(suf) + 1, Len(s)) = suf

\* Condition.string_matches: '*' in the pattern stands for any run of
\* characters, every other character for itself.
RECURSIVE StringMatches(_, _)
StringMatches(s, pat) ==
    IF pat = <<>> THEN s = <<>>
    ELSE IF Head(pat) = "*"
         THEN \E i \in 0..Len(s) : StringMatches(SubSeq(s, i + 1, Len(s)), Tail(pat))
         ELSE /\ s # <<>>
              /\ Head(s) = Head(pat)
              /\ StringMatches(Tail(s), Tail(pat))

\* States.Format: each "{}" of the template is replaced by the next argument.
RECURSIVE StatesFormat(_, _)
StatesFormat(tpl, args) ==
    IF tpl = <<>> THEN <<>>
    ELSE IF Head(tpl) = "{}"
         THEN <<Head(args)>> \o StatesFormat(Tail(tpl), Tail(args))
         ELSE <<Head(tpl)>> \o StatesFormat(Tail(tpl), args)

\* States.StringSplit: the pieces between the separators, empty pieces dropped.
\* A piece is kept as the sequence of its tokens.
RECURSIVE SplitFrom(_, _, _)
SplitFrom(s, sep, cur) ==
    IF s = <<>> THEN (IF cur = <<>> THEN <<>> ELSE <<cur>>)
    ELSE IF Head(s) = sep
         THEN (IF cur = <<>> THEN <<>> ELSE <<cur>>) \o SplitFrom(Tail(s), sep, <<>>)
         ELSE SplitFrom(Tail(s), sep, Append(cur, Head(s)))

StatesStringSplit(s, sep) == SplitFrom(s, sep, <<>>)

\* States.ArrayGetItem: zero-based index.
StatesArrayGetItem(arr, i) == arr[i + 1]

----------------------------------------------------------------------------
(* Payload paths *)

RECURSIVE HasPath(_, _)
HasPath(v, p) ==
    IF p = <<>> THEN TRUE
    ELSE /\ Head(p) \in DOMAIN v
         /\ HasPath(v[Head(p)], Tail(p))

RECURSIVE GetPath(_, _)
GetPath(v, p) == IF p = <<>> THEN v ELSE GetPath(v[Head(p)], Tail(p))

\* ResultPath: the result is written at the path; the empty path is "$", the
\* whole payload.  Only top-level paths are declared by the stack.
ApplyResultPath(input, path, result) ==
    IF path = <<>> THEN result
    ELSE [k \in DOMAIN input \cup {Head(path)} |->
            IF k = Head(path) THEN result ELSE input[k]]

----------------------------------------------------------------------------
(* The trigger: bucket and EventBridge rule *)

NoEvent == [source |-> "none"]

\* The bucket the stack creates, and a bucket that is not the stack's.
bucket == "audio-bucket"

OtherBucket == "other-bucket"

\* The rule's event pattern.
rule ==
    [source      |-> {"aws.s3"},
     detail_type |-> {"Object Created"},
     bucket_name |-> {bucket},
     key_suffix  |-> {dot_mp4}]

RuleMatches(e) ==
    /\ e.source \in rule.source
    /\ e.detail_type \in rule.detail_type
    /\ e.detail.bucket.name \in rule.bucket_name
    /\ \E suf \in rule.key_suffix : HasSuffix(e.detail.object.key, suf)

Keys == {clip_mp4, talk_mp4, song_mp3, document_pdf}

Events ==
    [source      : {"aws.s3"},
     detail_type : {"Object Created", "Object Deleted"},
     detail      : [bucket : [name : {bucket, OtherBucket}],
                    object : [key : Keys]]]

ExecNames == {"exec-1", "exec-2", "exec-3"}

----------------------------------------------------------------------------
(* The states of the state machine *)

StatusPath == <<"TranscriptionJobDetails", "TranscriptionJob", "TranscriptionJobStatus">>

LanguagePath == <<"TranscriptionJobDetails", "TranscriptionJob", "LanguageCode">>

JobNamePath == <<"TranscriptionJobDetails", "TranscriptionJob", "TranscriptionJobName">>

TranscriptUriPath ==
    <<"TranscriptionJobDetails", "TranscriptionJob", "Transcript", "TranscriptFileUri">>

TranscriptsPath == <<"TranscriptionFile", "FileContents", "results", "transcripts">>

TranslatedTextPath == <<"TranslatedText", "TranslatedText">>

BucketNamePath == <<"detail", "bucket", "name">>

ObjectKeyPath == <<"detail", "object", "key">>

start_transcription_job ==
    [Name       |-> "StartTranscriptionJob",
     Type       |-> "Task",
     Resource   |-> "transcribe:startTranscriptionJob",
     Reads      |-> {BucketNamePath, ObjectKeyPath},
     ResultPath |-> <<"TranscriptionJobDetails">>]

get_transcription_job ==
    [Name       |-> "GetTranscriptionJob",
     Type       |-> "Task",
     Resource   |-> "transcribe:getTranscriptionJob",
     Reads      |-> {JobNamePath},
     ResultPath |-> <<"TranscriptionJobDetails">>]

get_transcription_file ==
    [Name       |-> "GetTranscriptionFile",
     Type       |-> "Task",
     Resource   |-> "s3:getObject",
     Reads      |-> {TranscriptUriPath},
     ResultPath |-> <<"TranscriptionFile">>]

wait_state ==
    [Name    |-> "WaitForTranscription",
     Type    |-> "Wait",
     Seconds |-> 45]

translate_text ==
    [Name       |-> "TranslateText",
     Type       |-> "Task",
     Resource   |-> "translate:translateText",
     Reads      |-> {LanguagePath, TranscriptsPath},
     ResultPath |-> <<"TranslatedText">>]

\* No ResultPath is declared: the result replaces the payload.
synthesize_speech ==
    [Name     |-> "SynthesizeSpeech",
     Type     |-> "Task",
     Resource |-> "polly:startSpeechSynthesisTask",
     Reads    |-> {BucketNamePath, TranslatedTextPath}]

skip_translation ==
    [Name |-> "SkipTranslation",
     Type |-> "Pass"]

\* is_language_english fetching the transcript for English audio too.
is_language_english_fetch ==
    [Name    |-> "IsLanguageEnglish?",
     Type    |-> "Choice",
     Choices |-> << [Variable  |-> LanguagePath,
                     Condition |-> "StringMatches",
                     Value     |-> <<"e", "n", "*">>,
                     Next      |-> "GetTranscriptionFile"] >>,
     Default |-> "GetTranscriptionFile"]

\* is_language_english matching the code en alone, without the wildcard.
is_language_english_exact ==
    [Name    |-> "IsLanguageEnglish?",
     Type    |-> "Choice",
     Choices |-> << [Variable  |-> LanguagePath,
                     Condition |-> "StringMatches",
                     Value     |-> <<"e", "n">>,
                     Next      |-> "SkipTranslation"] >>,
     Default |-> "GetTranscriptionFile"]

\* A Choice: the rules in declaration order, then the otherwise target.
is_language_english ==
    [Name    |-> "IsLanguageEnglish?",
     Type    |-> "Choice",
     Choices |-> << [Variable  |-> LanguagePath,
                     Condition |-> "StringMatches",
                     Value     |-> <<"e", "n", "*">>,
                     Next      |-> "SkipTranslation"] >>,
     Default |-> "GetTranscriptionFile"]

\* transcription_complete going back to the submission instead of the wait.
transcription_complete_resubmit ==
    [Name    |-> "TranscriptionComplete?",
     Type    |-> "Choice",
     Choices |-> << [Variable  |-> StatusPath,
                     Condition |-> "StringEquals",
                     Value     |-> "COMPLETED",
                     Next      |-> "IsLanguageEnglish?"] >>,
     Default |-> "StartTranscriptionJob"]

\* transcription_complete polling again without waiting.
transcription_complete_nowait ==
    [Name    |-> "TranscriptionComplete?",
     Type    |-> "Choice",
     Choices |-> << [Variable  |-> StatusPath,
                     Condition |-> "StringEquals",
                     Value     |-> "COMPLETED",
                     Next      |-> "IsLanguageEnglish?"] >>,
     Default |-> "GetTranscriptionJob"]

transcription_complete ==
    [Name    |-> "TranscriptionComplete?",
     Type    |-> "Choice",
     Choices |-> << [Variable  |-> StatusPath,
                     Condition |-> "StringEquals",
                     Value     |-> "COMPLETED",
                     Next      |-> "IsLanguageEnglish?"] >>,
     Default |-> "WaitForTranscription"]

\* otherwise_chain without the translation.
otherwise_chain_notranslate ==
    ("GetTranscriptionFile" :> "SynthesizeSpeech")
        @@ ("TranslateText" :> "SynthesizeSpeech")

\* otherwise_chain with the synthesis followed by the wait of a poll loop.
otherwise_chain_polled ==
    ("GetTranscriptionFile" :> "TranslateText")
        @@ ("TranslateText" :> "SynthesizeSpeech")
        @@ ("SynthesizeSpeech" :> "WaitForTranscription")

\* The chain given to otherwise(): state -> the state .next() names.
otherwise_chain ==
    ("GetTranscriptionFile" :> "TranslateText")
        @@ ("TranslateText" :> "SynthesizeSpeech")

\* definition with the poll followed by the fetch, without the Choice.
definition_nochoice ==
    ("StartTranscriptionJob" :> "WaitForTranscription")
        @@ ("WaitForTranscription" :> "GetTranscriptionJob")
        @@ ("GetTranscriptionJob" :> "GetTranscriptionFile")

\* The chain the state machine is built from; its first state is the entry.
definition ==
    ("StartTranscriptionJob" :> "WaitForTranscription")
        @@ ("WaitForTranscription" :> "GetTranscriptionJob")
        @@ ("GetTranscriptionJob" :> "TranscriptionComplete?")

StartAt == "StartTranscriptionJob"

\* Transitions of the Task, Wait and Pass states; a state without one ends
\* the execution.
NextOf == definition @@ otherwise_chain

StateDefs ==
    {start_transcription_job, get_transcription_job, get_transcription_file,
     wait_state, translate_text, synthesize_speech, skip_translation,
     is_language_english, transcription_complete}

StateNames == {d.Name : d \in StateDefs}

TaskNames == {d.Name : d \in {x \in StateDefs : x.Type = "Task"}}

State(n) == CHOOSE d \in StateDefs : d.Name = n

IsEnd(n) == n \notin DOMAIN NextOf

\* The declared ResultPath, or "$" when none is declared.
ResultPathOf(n) ==
    IF "ResultPath" \in DOMAIN State(n) THEN State(n).ResultPath ELSE <<>>


----------------------------------------------------------------------------
(* Task parameters: the payload and the context object -> the request *)

Context(x) == [Execution |-> [Name |-> x]]

\* StartTranscriptionJobParameters naming the job after the uploaded object.
StartTranscriptionJobParameters_keyed(input, ctx) ==
    [TranscriptionJobName |->
        StatesFormat(<<"TranscriptionJob-", "{}">>, <<GetPath(input, ObjectKeyPath)>>),
     IdentifyLanguage |-> TRUE,
     Media |-> [MediaFileUri |->
        StatesFormat(<<"s3://", "{}", "/", "{}">>,
                     <<GetPath(input, BucketNamePath), GetPath(input, ObjectKeyPath)>>)],
     OutputBucketName |-> GetPath(input, BucketNamePath)]

StartTranscriptionJobParameters(input, ctx) ==
    [TranscriptionJobName |->
        StatesFormat(<<"TranscriptionJob-", "{}">>, <<ctx.Execution.Name>>),
     IdentifyLanguage |-> TRUE,
     Media |-> [MediaFileUri |->
        StatesFormat(<<"s3://", "{}", "/", "{}">>,
                     <<GetPath(input, BucketNamePath), GetPath(input, ObjectKeyPath)>>)],
     OutputBucketName |-> GetPath(input, BucketNamePath)]

GetTranscriptionJobParameters(input, ctx) ==
    [TranscriptionJobName |-> GetPath(input, JobNamePath)]

GetTranscriptionFileParameters(input, ctx) ==
    [Bucket |-> StatesArrayGetItem(
                    StatesStringSplit(GetPath(input, TranscriptUriPath), "/"), 2),
     Key    |-> StatesArrayGetItem(
                    StatesStringSplit(GetPath(input, TranscriptUriPath), "/"), 3)]

TranslateTextParameters(input, ctx) ==
    [SourceLanguageCode |-> GetPath(input, LanguagePath),
     TargetLanguageCode |-> en,
     Text               |-> GetPath(input, TranscriptsPath)[1].transcript]

SynthesizeSpeechParameters(input, ctx) ==
    [OutputFormat       |-> "mp3",
     OutputS3BucketName |-> GetPath(input, BucketNamePath),
     OutputS3KeyPrefix  |-> "translations/",
     Text               |-> GetPath(input, TranslatedTextPath),
     VoiceId            |-> "Joanna"]

Parameters(n, input, ctx) ==
    CASE n = "StartTranscriptionJob" -> StartTranscriptionJobParameters(input, ctx)
      [] n = "GetTranscriptionJob"   -> GetTranscriptionJobParameters(input, ctx)
      [] n = "GetTranscriptionFile"  -> GetTranscriptionFileParameters(input, ctx)
      [] n = "TranslateText"         -> TranslateTextParameters(input, ctx)
      [] n = "SynthesizeSpeech"      -> SynthesizeSpeechParameters(input, ctx)

\* A Task's Parameters can be evaluated when every path they read is there.
ReadsPresent(n, input) == \A p \in State(n).Reads : HasPath(input, p)

----------------------------------------------------------------------------
(* The external services: the responses a call can get *)

Languages == {en, en_US, es}

TranscriptTexts == {"hola", "hello"}

TranslatedTexts == {"hello (translated)", "hi (translated)"}

TranscriptDoc(t) == [results |-> [transcripts |-> << [transcript |-> t] >>]]

\* An object body: the JSON text of a document, or text that is not JSON.
JsonText(doc) == [json |-> doc]

NotJson == [raw |-> "not json"]

IsJsonText(body) == "json" \in DOMAIN body

\* States.StringToJson, defined on JSON text only.
StatesStringToJson(body) == body.json

TranscriptUri(b) ==
    <<"https:", "/", "/", "s3.amazonaws.com", "/", b, "/", "transcript.json">>

\* The status a poll can report after the status the payload holds: a failed
\* job stays failed.
PollStatuses(last) ==
    IF last = "FAILED" THEN {"FAILED"} ELSE {"IN_PROGRESS", "COMPLETED", "FAILED"}

Responses(n, params, input) ==
    CASE n = "StartTranscriptionJob" ->
           { [TranscriptionJob |->
                [TranscriptionJobName   |-> params.TranscriptionJobName,
                 TranscriptionJobStatus |-> st]] : st \in {"QUEUED", "IN_PROGRESS"} }
      [] n = "GetTranscriptionJob" ->
           { [TranscriptionJob |->
                [TranscriptionJobName   |-> params.TranscriptionJobName,
                 TranscriptionJobStatus |-> st]] :
                   st \in PollStatuses(GetPath(input, StatusPath)) \ {"COMPLETED"} }
           \cup
           { [TranscriptionJob |->
                [TranscriptionJobName   |-> params.TranscriptionJobName,
                 TranscriptionJobStatus |-> "COMPLETED",
                 LanguageCode           |-> l,
                 Transcript |-> [TranscriptFileUri |->
                                    TranscriptUri(GetPath(input, BucketNamePath))]]] :
                   l \in IF "COMPLETED" \in PollStatuses(GetPath(input, StatusPath))
                         THEN Languages ELSE {} }
      [] n = "GetTranscriptionFile" ->
           { [Body |-> JsonText(TranscriptDoc(t))] : t \in TranscriptTexts }
           \cup { [Body |-> NotJson] }
      [] n = "TranslateText" ->
           { [TranslatedText     |-> t,
              SourceLanguageCode |-> params.SourceLanguageCode,
              TargetLanguageCode |-> params.TargetLanguageCode] : t \in TranslatedTexts }
      [] n = "SynthesizeSpeech" ->
           { [SynthesisTask |-> [TaskId |-> "task-1", TaskStatus |-> "scheduled"]] }

\* ResultSelector of get_transcription_file; the other Tasks declare none.
SelectorDefined(n, resp) ==
    n = "GetTranscriptionFile" => IsJsonText(resp.Body)

ResultSelector(n, resp) ==
    IF n = "GetTranscriptionFile"
    THEN [FileContents |-> StatesStringToJson(resp.Body)]
    ELSE resp

\* How a call itself can fail.
CallErrors == {"TransientExternalError", "PermanentExternalError"}


----------------------------------------------------------------------------
(* The run *)

NoError == [kind |-> "none", state |-> "none"]

NoCall == [none |-> TRUE]

NoPayload == [none |-> TRUE]

\* The executions of PairSpec, each started by its own event.
RunIds == {"run-1", "run-2"}

NoRun ==
    [executionId  |-> "none",
     currentState |-> "none",
     outcome      |-> "NOT_STARTED",
     error        |-> NoError,
     payload      |-> NoPayload]

Init ==
    /\ event = NoEvent
    /\ runsStarted = 0
    /\ executionId = "none"
    /\ currentState = "none"
    /\ outcome = "NOT_STARTED"
    /\ error = NoError
    /\ payload = NoPayload
    /\ prev = ""
    /\ count = [n \in StateNames |-> 0]
    /\ lastCall = [n \in TaskNames |-> NoCall]
    /\ lastResult = [n \in TaskNames |-> NoCall]
    /\ attempts = 0
    /\ callStatus = "none"
    /\ statusHist = <<>>
    /\ subs = <<>>
    /\ evals = <<>>
    /\ runs = [r \in RunIds |-> NoRun]
    /\ jobs = <<>>

\* An upload event reaches the bus; the rule's target starts one execution
\* with the event as its input when the event matches the pattern.
Deliver(e, x) ==
    /\ event = NoEvent
    /\ event' = e
    /\ IF RuleMatches(e)
       THEN /\ runsStarted' = runsStarted + 1
            /\ executionId' = x
            /\ payload' = e
            /\ currentState' = StartAt
            /\ outcome' = "RUNNING"
       ELSE UNCHANGED <<runsStarted, executionId, payload, currentState, outcome>>
    /\ UNCHANGED <<error, prev, count, lastCall, lastResult, attempts, callStatus,
                   statusHist, auxVars>>

Bump(n) == [count EXCEPT ![n] = IF @ < MaxPolls THEN @ + 1 ELSE @]

\* The statuses written to the payload are kept up to the saturation point.
Record(hist, st) == IF Len(hist) < MaxPolls + 1 THEN Append(hist, st) ELSE hist

\* After state n: its next state, or the end of the execution.
Advance(n, target) ==
    IF IsEnd(n)
    THEN /\ outcome' = "SUCCEEDED"
         /\ currentState' = n
    ELSE /\ outcome' = outcome
         /\ currentState' = target

Fail(n, kind) ==
    /\ outcome' = "FAILED"
    /\ error' = [kind |-> kind, state |-> n]
    /\ currentState' = n

\* A Task state whose call succeeds: the (selected) result is written at the
\* ResultPath and the run moves on.
TaskSucceed(n) ==
    /\ outcome = "RUNNING"
    /\ currentState = n
    /\ State(n).Type = "Task"
    /\ ReadsPresent(n, payload)
    /\ LET params == Parameters(n, payload, Context(executionId)) IN
       /\ \E resp \in Responses(n, params, payload) :
            /\ SelectorDefined(n, resp)
            /\ payload' = ApplyResultPath(payload, ResultPathOf(n), ResultSelector(n, resp))
            /\ lastResult' = [lastResult EXCEPT ![n] = ResultSelector(n, resp)]
            /\ statusHist' = IF ResultPathOf(n) = <<"TranscriptionJobDetails">>
                             THEN Record(statusHist, resp.TranscriptionJob.TranscriptionJobStatus)
                             ELSE statusHist
       /\ lastCall' = [lastCall EXCEPT ![n] = params]
    /\ attempts' = 1
    /\ callStatus' = "ok"
    /\ count' = Bump(n)
    /\ prev' = n
    /\ Advance(n, IF IsEnd(n) THEN n ELSE NextOf[n])
    /\ UNCHANGED <<event, runsStarted, executionId, error, auxVars>>

\* TaskFail with a catch-all that moves on to the next state.
TaskFail_caught(n, kind) ==
    /\ outcome = "RUNNING"
    /\ currentState = n
    /\ State(n).Type = "Task"
    /\ ReadsPresent(n, payload)
    /\ lastCall' = [lastCall EXCEPT ![n] = Parameters(n, payload, Context(executionId))]
    /\ attempts' = 1
    /\ callStatus' = kind
    /\ count' = Bump(n)
    /\ prev' = n
    /\ Advance(n, IF IsEnd(n) THEN n ELSE NextOf[n])
    /\ UNCHANGED <<event, runsStarted, executionId, error, payload, lastResult,
                   statusHist, auxVars>>

\* A Task state whose call fails: no Retry and no Catch is declared, so the
\* first failed call fails the execution.
TaskFail(n, kind) ==
    /\ outcome = "RUNNING"
    /\ currentState = n
    /\ State(n).Type = "Task"
    /\ ReadsPresent(n, payload)
    /\ lastCall' = [lastCall EXCEPT ![n] = Parameters(n, payload, Context(executionId))]
    /\ attempts' = 1
    /\ callStatus' = kind
    /\ count' = Bump(n)
    /\ prev' = n
    /\ Fail(n, kind)
    /\ UNCHANGED <<event, runsStarted, executionId, payload, lastResult, statusHist, auxVars>>

\* A Task state that cannot be evaluated: a path its Parameters read is absent
\* (no call is made), or its ResultSelector is undefined on the response.
TaskRuntimeError(n) ==
    /\ outcome = "RUNNING"
    /\ currentState = n
    /\ State(n).Type = "Task"
    /\ IF ReadsPresent(n, payload)
       THEN LET params == Parameters(n, payload, Context(executionId)) IN
            /\ \E resp \in Responses(n, params, payload) : ~SelectorDefined(n, resp)
            /\ lastCall' = [lastCall EXCEPT ![n] = params]
            /\ attempts' = 1
            /\ callStatus' = "ok"
       ELSE /\ lastCall' = lastCall
            /\ attempts' = 0
            /\ callStatus' = "none"
    /\ count' = Bump(n)
    /\ prev' = n
    /\ Fail(n, "GraphDefinitionError")
    /\ UNCHANGED <<event, runsStarted, executionId, payload, lastResult, statusHist, auxVars>>

WaitStep(n) ==
    /\ outcome = "RUNNING"
    /\ currentState = n
    /\ State(n).Type = "Wait"
    /\ count' = Bump(n)
    /\ prev' = n
    /\ Advance(n, IF IsEnd(n) THEN n ELSE NextOf[n])
    /\ UNCHANGED <<event, runsStarted, executionId, error, payload, lastCall,
                   lastResult, attempts, callStatus, statusHist, auxVars>>

PassStep(n) ==
    /\ outcome = "RUNNING"
    /\ currentState = n
    /\ State(n).Type = "Pass"
    /\ count' = Bump(n)
    /\ prev' = n
    /\ Advance(n, IF IsEnd(n) THEN n ELSE NextOf[n])
    /\ UNCHANGED <<event, runsStarted, executionId, error, payload, lastCall,
                   lastResult, attempts, callStatus, statusHist, auxVars>>

\* One comparison of a Choice rule against the payload.
Holds(r, input) ==
    CASE r.Condition = "StringEquals"  -> GetPath(input, r.Variable) = r.Value
      [] r.Condition = "StringMatches" -> StringMatches(GetPath(input, r.Variable), r.Value)

\* Choose with the last rule that holds winning.
RECURSIVE Choose_last(_, _, _)
Choose_last(rules, default, input) ==
    IF rules = <<>> THEN default
    ELSE LET last == rules[Len(rules)] IN
         IF ~HasPath(input, last.Variable) THEN ""
         ELSE IF Holds(last, input) THEN last.Next
         ELSE Choose_last(SubSeq(rules, 1, Len(rules) - 1), default, input)

\* The rules are tried in declaration order.  The result is the target of the
\* first rule that holds, the otherwise target when none does, and "" when a
\* rule that is reached reads a path the payload does not have.
RECURSIVE Choose(_, _, _)
Choose(rules, default, input) ==
    IF rules = <<>> THEN default
    ELSE IF ~HasPath(input, Head(rules).Variable) THEN ""
    ELSE IF Holds(Head(rules), input) THEN Head(rules).Next
    ELSE Choose(Tail(rules), default, input)

ChoiceStep(n) ==
    /\ outcome = "RUNNING"
    /\ currentState = n
    /\ State(n).Type = "Choice"
    /\ count' = Bump(n)
    /\ prev' = n
    /\ LET target == Choose(State(n).Choices, State(n).Default, payload) IN
       IF target = ""
       THEN Fail(n, "GraphDefinitionError")
       ELSE /\ currentState' = target
            /\ UNCHANGED <<outcome, error>>
    /\ UNCHANGED <<event, runsStarted, executionId, payload, lastCall,
                   lastResult, attempts, callStatus, statusHist, auxVars>>

Next ==
    \/ \E e \in Events, x \in ExecNames : Deliver(e, x)
    \/ \E n \in StateNames : TaskSucceed(n)
    \/ \E n \in StateNames, kind \in CallErrors : TaskFail(n, kind)
    \/ \E n \in StateNames : TaskRuntimeError(n)
    \/ \E n \in StateNames : WaitStep(n)
    \/ \E n \in StateNames : PassStep(n)
    \/ \E n \in StateNames : ChoiceStep(n)

Spec == Init /\ [][Next]_vars

\* The engine executes the state a running execution is at.
FairSpec == Spec /\ WF_vars(Next)

\* The job submission evaluated on its own: StartTranscriptionJob's Parameters
\* for an execution named x whose input is the event e.
Submit(e, x) ==
    /\ Len(subs) < MaxSubs
    /\ RuleMatches(e)
    /\ subs' = Append(subs,
            [executionId |-> x,
             input       |-> e,
             jobName     |-> StartTranscriptionJobParameters(e, Context(x)).TranscriptionJobName])
    /\ UNCHANGED <<runVars, evals, runs, jobs>>

NamingNext == \E e \in Events, x \in ExecNames : Submit(e, x)

NamingSpec == Init /\ [][NamingNext]_vars

\* The Choice evaluation on its own: Choices built with .when() from the two
\* conditions the stack declares, in either order, with either otherwise
\* target, evaluated on the payloads a run holds after a poll.
CompletedRule == transcription_complete.Choices[1]

EnglishRule == is_language_english.Choices[1]

RuleLists ==
    {<<CompletedRule>>, <<EnglishRule>>,
     <<CompletedRule, EnglishRule>>, <<EnglishRule, CompletedRule>>}

OtherwiseTargets == {transcription_complete.Default, is_language_english.Default}

PolledPayloads ==
    LET e == CHOOSE x \in Events : RuleMatches(x) /\ x.detail.object.key = clip_mp4
        ctx == Context("exec-1")
        submitted ==
            ApplyResultPath(e, ResultPathOf("StartTranscriptionJob"),
                CHOOSE r \in Responses("StartTranscriptionJob",
                                       StartTranscriptionJobParameters(e, ctx), e) :
                    r.TranscriptionJob.TranscriptionJobStatus = "IN_PROGRESS")
    IN { ApplyResultPath(submitted, ResultPathOf("GetTranscriptionJob"), r) :
            r \in Responses("GetTranscriptionJob",
                            GetTranscriptionJobParameters(submitted, ctx), submitted) }

Evaluate(rules, default, input) ==
    /\ Len(evals) < MaxEvals
    /\ \A i \in DOMAIN rules : HasPath(input, rules[i].Variable)
    /\ evals' = Append(evals,
            [rules   |-> rules,
             default |-> default,
             input   |-> input,
             target  |-> Choose(rules, default, input)])
    /\ UNCHANGED <<runVars, subs, runs, jobs>>

ChoiceNext ==
    \E rules \in RuleLists, default \in OtherwiseTargets, input \in PolledPayloads :
        Evaluate(rules, default, input)

ChoiceSpec == Init /\ [][ChoiceNext]_vars

----------------------------------------------------------------------------
(* Two executions of the state machine, started by two events, and the      *)
(* transcription service they share: its jobs are kept by job name, a       *)
(* submission under a name that is taken is refused, and a poll reports the *)
(* job of the name it asks for.                                             *)

\* The rule's target starts an execution for a matching event; the execution
\* gets a name no other execution has.
PairDeliver(r, e, x) ==
    /\ runs[r].outcome = "NOT_STARTED"
    /\ RuleMatches(e)
    /\ \A q \in RunIds : runs[q].executionId # x
    /\ runs' = [runs EXCEPT ![r] =
            [executionId  |-> x,
             currentState |-> StartAt,
             outcome      |-> "RUNNING",
             error        |-> NoError,
             payload      |-> e]]
    /\ UNCHANGED <<runVars, subs, evals, jobs>>

PairAt(r, type) ==
    /\ runs[r].outcome = "RUNNING"
    /\ State(runs[r].currentState).Type = type

PairAdvance(r, target, out) ==
    runs' = [runs EXCEPT ![r] =
        [executionId  |-> runs[r].executionId,
         currentState |-> IF IsEnd(runs[r].currentState) THEN runs[r].currentState ELSE target,
         outcome      |-> IF IsEnd(runs[r].currentState) THEN "SUCCEEDED" ELSE "RUNNING",
         error        |-> NoError,
         payload      |-> out]]

PairFail(r, kind) ==
    runs' = [runs EXCEPT ![r] =
        [executionId  |-> runs[r].executionId,
         currentState |-> runs[r].currentState,
         outcome      |-> "FAILED",
         error        |-> [kind |-> kind, state |-> runs[r].currentState],
         payload      |-> runs[r].payload]]

PairParams(r) ==
    Parameters(runs[r].currentState, runs[r].payload, Context(runs[r].executionId))

\* The responses the services can give to the call of run r: a poll gets the
\* status (and language) of the job it names, a submission is accepted only
\* under a name that is free.
PairResponses(r) ==
    LET n == runs[r].currentState
        all == Responses(n, PairParams(r), runs[r].payload)
    IN CASE n = "StartTranscriptionJob" ->
              IF PairParams(r).TranscriptionJobName \in DOMAIN jobs THEN {} ELSE all
         [] n = "GetTranscriptionJob" ->
              LET name == PairParams(r).TranscriptionJobName IN
              IF name \notin DOMAIN jobs THEN {}
              ELSE { resp \in all :
                       /\ resp.TranscriptionJob.TranscriptionJobStatus = jobs[name].status
                       /\ jobs[name].status = "COMPLETED"
                             => resp.TranscriptionJob.LanguageCode = jobs[name].language }
         [] OTHER -> all

PairTaskSucceed(r) ==
    /\ PairAt(r, "Task")
    /\ ReadsPresent(runs[r].currentState, runs[r].payload)
    /\ LET n == runs[r].currentState IN
       \E resp \in PairResponses(r) :
          /\ SelectorDefined(n, resp)
          /\ PairAdvance(r, IF IsEnd(n) THEN n ELSE NextOf[n],
                         ApplyResultPath(runs[r].payload, ResultPathOf(n),
                                         ResultSelector(n, resp)))
          /\ jobs' = IF n = "StartTranscriptionJob"
                     THEN (PairParams(r).TranscriptionJobName :>
                              [status   |-> "IN_PROGRESS",
                               language |-> en,
                               owner    |-> r]) @@ jobs
                     ELSE jobs
    /\ UNCHANGED <<runVars, subs, evals>>

\* The failed call of a Task: any call can fail, and a submission under a
\* name that is taken does fail (ConflictException).
PairTaskFail(r, kind) ==
    /\ PairAt(r, "Task")
    /\ ReadsPresent(runs[r].currentState, runs[r].payload)
    /\ PairFail(r, IF /\ runs[r].currentState = "StartTranscriptionJob"
                      /\ PairParams(r).TranscriptionJobName \in DOMAIN jobs
                   THEN "ConflictException"
                   ELSE kind)
    /\ UNCHANGED <<runVars, subs, evals, jobs>>

PairTaskRuntimeError(r) ==
    /\ PairAt(r, "Task")
    /\ IF ReadsPresent(runs[r].currentState, runs[r].payload)
       THEN \E resp \in PairResponses(r) : ~SelectorDefined(runs[r].currentState, resp)
       ELSE TRUE
    /\ PairFail(r, "GraphDefinitionError")
    /\ UNCHANGED <<runVars, subs, evals, jobs>>

PairWaitOrPass(r) ==
    /\ PairAt(r, "Wait") \/ PairAt(r, "Pass")
    /\ PairAdvance(r, IF IsEnd(runs[r].currentState) THEN runs[r].currentState
                      ELSE NextOf[runs[r].currentState],
                   runs[r].payload)
    /\ UNCHANGED <<runVars, subs, evals, jobs>>

PairChoice(r) ==
    /\ PairAt(r, "Choice")
    /\ LET st == State(runs[r].currentState)
           target == Choose(st.Choices, st.Default, runs[r].payload)
       IN IF target = ""
          THEN PairFail(r, "GraphDefinitionError")
          ELSE runs' = [runs EXCEPT ![r].currentState = target]
    /\ UNCHANGED <<runVars, subs, evals, jobs>>

\* The service works on a job: it completes, with the language it has
\* identified, or fails.
JobProgress(name, st, l) ==
    /\ name \in DOMAIN jobs
    /\ jobs[name].status = "IN_PROGRESS"
    /\ jobs' = [jobs EXCEPT ![name] =
            [status |-> st, language |-> l, owner |-> jobs[name].owner]]
    /\ UNCHANGED <<runVars, subs, evals, runs>>

PairNext ==
    \/ \E r \in RunIds, e \in Events, x \in ExecNames : PairDeliver(r, e, x)
    \/ \E r \in RunIds : PairTaskSucceed(r)
    \/ \E r \in RunIds, kind \in CallErrors : PairTaskFail(r, kind)
    \/ \E r \in RunIds : PairTaskRuntimeError(r)
    \/ \E r \in RunIds : PairWaitOrPass(r)
    \/ \E r \in RunIds : PairChoice(r)
    \/ \E name \in DOMAIN jobs, l \in Languages : JobProgress(name, "COMPLETED", l)
    \/ \E name \in DOMAIN jobs : JobProgress(name, "FAILED", en)

PairSpec == Init /\ [][PairNext]_vars


----------------------------------------------------------------------------
(* Claims *)

\* C1: a run that has started eventually ends SUCCEEDED or FAILED, for every
\* sequence of statuses the polls return, one that never reports COMPLETED
\* included: the run does not stay in the WaitForTranscription ->
\* GetTranscriptionJob -> TranscriptionComplete? cycle forever.
ClaimC1 == (outcome = "RUNNING") ~> (outcome \in {"SUCCEEDED", "FAILED"})

\* C2: once a poll has returned status FAILED and the completion Choice has
\* been evaluated on it, the run is not back in the poll loop: it has ended
\* FAILED with error kind PermanentExternalError.
ClaimC2 ==
    (/\ HasPath(payload, StatusPath)
     /\ GetPath(payload, StatusPath) = "FAILED"
     /\ prev = "TranscriptionComplete?")
        => (outcome = "FAILED" /\ error.kind = "PermanentExternalError")

\* C3: a run that ended after a poll reported COMPLETED with language code
\* "en" did not invoke translateText, passed through SkipTranslation, invoked
\* synthesizeSpeech exactly once with the original transcript text, and ended
\* SUCCEEDED.
ClaimC3 ==
    (/\ outcome \in {"SUCCEEDED", "FAILED"}
     /\ error.kind \notin CallErrors
     /\ HasPath(payload, LanguagePath)
     /\ GetPath(payload, LanguagePath) = en)
        => (/\ outcome = "SUCCEEDED"
            /\ count["TranslateText"] = 0
            /\ count["SkipTranslation"] = 1
            /\ count["SynthesizeSpeech"] = 1
            /\ HasPath(payload, TranscriptsPath)
            /\ lastCall["SynthesizeSpeech"].Text
                   = GetPath(payload, TranscriptsPath)[1].transcript)

\* C4: a Task state that completes leaves every top-level payload field other
\* than the one its declared ResultPath names present and unchanged.
ClaimC4 ==
    [][ (/\ outcome = "RUNNING"
         /\ currentState \in TaskNames
         /\ callStatus' = "ok"
         /\ outcome' # "FAILED")
            => \A k \in DOMAIN payload :
                  \/ /\ "ResultPath" \in DOMAIN State(currentState)
                     /\ k = Head(State(currentState).ResultPath)
                  \/ /\ k \in DOMAIN payload'
                     /\ payload'[k] = payload[k] ]_vars


\* C5: scenario A.  A run for clip.mp4 that has ended, in which the statuses
\* the transcription service reported were IN_PROGRESS (to the submission),
\* IN_PROGRESS and COMPLETED (to the polls) and the detected language is es,
\* executed WaitForTranscription and GetTranscriptionJob exactly twice each;
\* it ended FAILED only because an external call failed or the transcript
\* object was not JSON; and when it ended SUCCEEDED, translateText was invoked
\* once with source es, target en and the fetched transcript, then
\* synthesizeSpeech once with the translated text, as the last state.  (When
\* the three statuses are those of the polls alone, the loop goes back to the
\* Wait state exactly twice: three waits and three polls.)
ClaimC5 ==
    /\ (/\ outcome \in {"SUCCEEDED", "FAILED"}
        /\ event.detail.object.key = clip_mp4
        /\ statusHist = <<"IN_PROGRESS", "IN_PROGRESS", "COMPLETED">>
        /\ lastResult["GetTranscriptionJob"].TranscriptionJob.LanguageCode = es)
           => /\ count["WaitForTranscription"] = 2
              /\ count["GetTranscriptionJob"] = 2
              /\ outcome = "FAILED" =>
                    \/ error.kind \in CallErrors
                    \/ error = [kind |-> "GraphDefinitionError", state |-> "GetTranscriptionFile"]
              /\ outcome = "SUCCEEDED" =>
                    /\ count["SkipTranslation"] = 0
                    /\ count["TranslateText"] = 1
                    /\ lastCall["TranslateText"] =
                          [SourceLanguageCode |-> es,
                           TargetLanguageCode |-> en,
                           Text |-> lastResult["GetTranscriptionFile"]
                                       .FileContents.results.transcripts[1].transcript]
                    /\ count["SynthesizeSpeech"] = 1
                    /\ lastCall["SynthesizeSpeech"].Text
                          = lastResult["TranslateText"].TranslatedText
                    /\ prev = "SynthesizeSpeech"
    /\ (/\ outcome \in {"SUCCEEDED", "FAILED"}
        /\ Len(statusHist) = 4
        /\ Tail(statusHist) = <<"IN_PROGRESS", "IN_PROGRESS", "COMPLETED">>)
           => /\ count["WaitForTranscription"] = 3
              /\ count["GetTranscriptionJob"] = 3

WitnessC5 ==
    /\ outcome = "SUCCEEDED"
    /\ event.detail.object.key = clip_mp4
    /\ statusHist = <<"IN_PROGRESS", "IN_PROGRESS", "COMPLETED">>
    /\ lastResult["GetTranscriptionJob"].TranscriptionJob.LanguageCode = es
    /\ count["SynthesizeSpeech"] = 1

\* C6: a step in which a Task's external call fails ends the run FAILED with
\* an error that names that Task and the kind of failure, leaves the payload
\* as it was, and executes no later state: the run does not move on from the
\* failed Task, and nothing changes once the run has FAILED.
ClaimC6 ==
    [][ /\ callStatus' \in CallErrors
           => /\ outcome' = "FAILED"
              /\ error' = [kind |-> callStatus', state |-> currentState]
              /\ currentState' = currentState
              /\ prev' = currentState
              /\ payload' = payload
        /\ outcome = "FAILED" => UNCHANGED vars ]_vars

WitnessC6 ==
    /\ outcome = "FAILED"
    /\ callStatus \in CallErrors
    /\ error.state = "TranslateText"
    /\ HasPath(payload, TranscriptsPath)
    /\ HasPath(payload, StatusPath)

\* C7: a run ends FAILED on a transient failure of an external call only
\* after the call has been retried.
ClaimC7 ==
    (outcome = "FAILED" /\ error.kind = "TransientExternalError") => attempts > 1

\* C8: for an Object Created event of the pipeline's bucket, one run is
\* started when the object key ends with .mp4 or .mp3, with the event's bucket
\* name and object key in its payload, and no run otherwise.
ClaimC8 ==
    (/\ event # NoEvent
     /\ event.detail_type = "Object Created"
     /\ event.detail.bucket.name = bucket)
        => IF \/ HasSuffix(event.detail.object.key, dot_mp4)
              \/ HasSuffix(event.detail.object.key, <<".", "m", "p", "3">>)
           THEN /\ runsStarted = 1
                /\ outcome = "RUNNING" =>
                      /\ GetPath(payload, BucketNamePath) = event.detail.bucket.name
                      /\ GetPath(payload, ObjectKeyPath) = event.detail.object.key
           ELSE runsStarted = 0

\* C9: two submissions with the same execution identifier carry the same job
\* name, whatever the bucket and object key of each.
ClaimC9 ==
    \A i, j \in DOMAIN subs :
        subs[i].executionId = subs[j].executionId => subs[i].jobName = subs[j].jobName

WitnessC9 ==
    \E i, j \in DOMAIN subs :
        /\ i < j
        /\ subs[i].executionId = subs[j].executionId
        /\ subs[i].input.detail.object.key # subs[j].input.detail.object.key

\* C10: synthesizeSpeech is executed at most once in a run, and once its
\* submission has succeeded the run has ended SUCCEEDED with SynthesizeSpeech
\* as the last state executed: no Wait and no poll follows it.
ClaimC10 ==
    /\ count["SynthesizeSpeech"] <= 1
    /\ lastResult["SynthesizeSpeech"] # NoCall
          => /\ outcome = "SUCCEEDED"
             /\ prev = "SynthesizeSpeech"
             /\ currentState = "SynthesizeSpeech"

WitnessC10 ==
    /\ lastResult["SynthesizeSpeech"] # NoCall
    /\ count["WaitForTranscription"] >= 2
    /\ count["GetTranscriptionJob"] >= 2


ClaimC14 ==
    \A n \in {"GetTranscriptionFile", "TranslateText", "SynthesizeSpeech"} :
        (currentState = n \/ count[n] >= 1 \/ lastCall[n] # NoCall)
            => /\ lastResult["GetTranscriptionJob"] # NoCall
               /\ lastResult["GetTranscriptionJob"].TranscriptionJob.TranscriptionJobStatus
                      = "COMPLETED"

WitnessC14 ==
    /\ lastCall["GetTranscriptionFile"] # NoCall
    /\ lastCall["TranslateText"] # NoCall
    /\ lastCall["SynthesizeSpeech"] # NoCall
    /\ count["GetTranscriptionJob"] >= 2

\* C15: translateText is invoked at most once in a run, only when the
\* detected language code is neither en nor en-US, and then with the detected
\* code as source, en as target and the fetched transcript as text; a run that
\* ended SUCCEEDED invoked it exactly when the detected code is neither.
ClaimC15 ==
    /\ count["TranslateText"] <= 1
    /\ lastCall["TranslateText"] # NoCall
          => /\ lastResult["GetTranscriptionJob"].TranscriptionJob.LanguageCode
                    \notin {en, en_US}
             /\ lastCall["TranslateText"] =
                   [SourceLanguageCode |->
                        lastResult["GetTranscriptionJob"].TranscriptionJob.LanguageCode,
                    TargetLanguageCode |-> en,
                    Text |-> lastResult["GetTranscriptionFile"]
                                .FileContents.results.transcripts[1].transcript]
    /\ outcome = "SUCCEEDED"
          => (lastCall["TranslateText"] # NoCall
                <=> lastResult["GetTranscriptionJob"].TranscriptionJob.LanguageCode
                        \notin {en, en_US})

WitnessC15 ==
    /\ outcome = "SUCCEEDED"
    /\ lastCall["TranslateText"] # NoCall
    /\ lastResult["GetTranscriptionJob"].TranscriptionJob.LanguageCode = es

\* C16: a running execution holds in its payload every path that the state
\* it is at reads, in its Parameters or in its Choice rules; and no run has
\* failed on the read of an absent path (the one evaluation that fails is
\* States.StringToJson on a fetched object that is not JSON).
ClaimC16 ==
    /\ (outcome = "RUNNING" /\ currentState \in TaskNames)
          => \A p \in State(currentState).Reads : HasPath(payload, p)
    /\ (outcome = "RUNNING" /\ currentState = "TranslateText")
          => /\ Len(GetPath(payload, TranscriptsPath)) >= 1
             /\ "transcript" \in DOMAIN GetPath(payload, TranscriptsPath)[1]
    /\ (outcome = "RUNNING" /\ currentState \in {"IsLanguageEnglish?", "TranscriptionComplete?"})
          => \A i \in DOMAIN State(currentState).Choices :
                HasPath(payload, State(currentState).Choices[i].Variable)
    /\ error.kind = "GraphDefinitionError"
          => /\ error.state = "GetTranscriptionFile"
             /\ attempts = 1
             /\ callStatus = "ok"

WitnessC16 ==
    /\ outcome = "RUNNING"
    /\ currentState = "SynthesizeSpeech"
    /\ HasPath(payload, TranslatedTextPath)
    /\ lastResult["TranslateText"] # NoCall

\* C17: a running execution is at GetTranscriptionJob only when the state it
\* executed last is WaitForTranscription: the status is polled neither
\* directly after the submission nor directly after a poll or its Choice.
ClaimC17 ==
    (outcome = "RUNNING" /\ currentState = "GetTranscriptionJob")
        => prev = "WaitForTranscription"

WitnessC17 ==
    /\ outcome = "RUNNING"
    /\ currentState = "GetTranscriptionJob"
    /\ count["GetTranscriptionJob"] >= 1
    /\ count["WaitForTranscription"] >= 2

\* C18: StartTranscriptionJob is the first state a run executes and is
\* executed once, however many poll cycles follow; every poll asks for the
\* job name that was submitted.
ClaimC18 ==
    /\ count["StartTranscriptionJob"] <= 1
    /\ (outcome = "RUNNING" /\ prev = "") => currentState = "StartTranscriptionJob"
    /\ prev # "" => count["StartTranscriptionJob"] = 1
    /\ lastCall["GetTranscriptionJob"] # NoCall
          => /\ lastCall["StartTranscriptionJob"] # NoCall
             /\ lastCall["GetTranscriptionJob"].TranscriptionJobName
                    = lastCall["StartTranscriptionJob"].TranscriptionJobName

WitnessC18 ==
    /\ count["GetTranscriptionJob"] >= 3
    /\ count["StartTranscriptionJob"] = 1
    /\ lastCall["GetTranscriptionJob"].TranscriptionJobName
           = lastCall["StartTranscriptionJob"].TranscriptionJobName


ClaimC12 ==
    [][ \A r \in RunIds :
          /\ runs'[r] # runs[r]
                => /\ \A q \in RunIds \ {r} : runs'[q] = runs[q]
                   /\ \A name \in DOMAIN jobs : jobs'[name] = jobs[name]
                   /\ \A name \in DOMAIN jobs' \ DOMAIN jobs : jobs'[name].owner = r
          /\ runs'[r].error.kind # "ConflictException"
          /\ HasPath(runs'[r].payload, JobNamePath)
                => /\ GetPath(runs'[r].payload, JobNamePath) \in DOMAIN jobs'
                   /\ jobs'[GetPath(runs'[r].payload, JobNamePath)].owner = r ]_vars

WitnessC12 ==
    /\ \A r \in RunIds :
          /\ runs[r].outcome = "RUNNING"
          /\ runs[r].currentState = "TranscriptionComplete?"
          /\ GetPath(runs[r].payload, ObjectKeyPath) = clip_mp4
    /\ GetPath(runs["run-1"].payload, StatusPath) = "COMPLETED"
    /\ GetPath(runs["run-2"].payload, StatusPath) = "FAILED"
    /\ Cardinality(DOMAIN jobs) = 2


====
